---- MODULE Spec2Model ----
(***************************************************************************)
(* A model of the lending canister of                                      *)
(* src/icp-azle-201-main/src/dfinity_js_backend/src/index.ts.              *)
(*                                                                         *)
(* State: the three stable maps (loansStorage, loanRequestsStorage,        *)
(* userProfiles), the clock read by ic.time(), the ids uuidv4() has not    *)
(* yet returned for a loan, and two observation variables: the requests    *)
(* created so far with their callers and the ids returned for them, and    *)
(* the last call with its arguments and its result.                        *)
(* Every update method of the canister is one action.  An uncaught         *)
(* exception (division by zero on bigint, a value that does not encode as  *)
(* nat64) traps the call: the canister state is rolled back and the call   *)
(* reports "Trap".                                                         *)
(*                                                                         *)
(* The loan and request methods neither read nor write userProfiles, and   *)
(* registerUser and saveFunds read and write nothing else, so the loan     *)
(* ledger (Spec) and the user ledger are explored apart.                   *)
(***************************************************************************)
EXTENDS Integers, Sequences, FiniteSets, TLC

VARIABLES loans, loanRequests, userProfiles, now, uuids, issued, last

vars == <<loans, loanRequests, userProfiles, now, uuids, issued, last>>

----------------------------------------------------------------------------
(* Bounds of the model *)

\* number of createLoanRequest calls in one behaviour
MaxRequests == 2
\* number of clock steps, of one year each
MaxYears == 1
\* accumulateInterest is not taken when it would push an amount above this
MaxAmount == 150
\* saveFunds is not taken when it would push a balance above this
MaxBalance == 12

----------------------------------------------------------------------------
(* Values *)

Principals == {"alice", "bob"}
Names == {"Alice", "Bob"}
\* the loan ids uuidv4() may return
LoanIds == {1, 2}
RequestIds == 1..MaxRequests
\* repayment amounts tried
Amounts == {0, 100}
\* new durations tried by requestLoanExtension
Durations == {1, 2}
\* deposits tried by saveFunds
Deposits == {5, 7}

\* the value of an absent Opt(Principal)
None == "None"

\* LoanRequest = Record({amount, interestRate, duration}): the payloads tried
LoanRequest ==
    { [amount |-> 100, interestRate |-> 20, duration |-> 1],
      [amount |-> 0, interestRate |-> 20, duration |-> 0] }

\* 365n * 24n * 60n * 60n
SecondsPerYear == 365 * 24 * 60 * 60

NoTerms == [amount |-> 0, interestRate |-> 0, duration |-> 0]

\* the ids of a set of loans in the key order of loansStorage.values()
RECURSIVE SortedIds(_)
SortedIds(S) ==
    IF S = {} THEN <<>>
    ELSE LET m == CHOOSE x \in S : \A y \in S : x <= y
         IN  <<m>> \o SortedIds(S \ {m})

\* the record of a call: its name, caller, arguments, result and returned ids
Call(op, caller, loanId, requestId, terms, lender, res, ids) ==
    [op |-> op, caller |-> caller, loanId |-> loanId, requestId |-> requestId,
     terms |-> terms, lender |-> lender, res |-> res, ids |-> ids]

----------------------------------------------------------------------------
(* Helper functions of the source *)

\* the largest integer of the model checker; bigint has none
MaxInt == (2^30 - 1) * 2 + 1

\* (a * b) % c on bigint, for a, b >= 0 and c > 0: where the product leaves
\* the integers of the model checker, a is halved and the parts are added
RECURSIVE MulMod(_, _, _)
MulMod(a, b, c) ==
    IF a = 0 \/ b <= MaxInt \div a
    THEN (a * b) % c
    ELSE (MulMod(a \div 2, b, c) + MulMod(a - (a \div 2), b, c)) % c

\* a * b / c on bigint (truncating), for a, b >= 0 and c > 0
RECURSIVE MulDiv(_, _, _)
MulDiv(a, b, c) ==
    IF a = 0 \/ b <= MaxInt \div a
    THEN (a * b) \div c
    ELSE MulDiv(a \div 2, b, c) + MulDiv(a - (a \div 2), b, c)
         + (MulMod(a \div 2, b, c) + MulMod(a - (a \div 2), b, c)) \div c

\* the elapsed time is cut to whole years before it is multiplied
calculateAccumulatedInterest_wholeYears(loan) ==
    ((loan.amount * loan.interestRate) \div 100)
        * ((now - loan.creationDate) \div SecondsPerYear)

\* loan.amount * loan.interestRate / 100n * (ic.time() - loan.creationDate) / (365n*24n*60n*60n)
calculateAccumulatedInterest(loan) ==
    MulDiv((loan.amount * loan.interestRate) \div 100, now - loan.creationDate,
           SecondsPerYear)

\* ic.time() >= loan.dueDate
shouldAutomateRepayment(loan) == now >= loan.dueDate

\* accumulatedInterest + loan.amount / loan.duration (duration # 0)
calculateRepaymentAmount(loan) ==
    calculateAccumulatedInterest(loan) + (loan.amount \div loan.duration)

\* the duration alone, the clock left out
calculateDueDate_noClock(duration) == duration

\* ic.time() + duration
calculateDueDate(duration) == now + duration

\* the stub: return false
loanIsFullyRepaid(loan) == FALSE

\* a due-date test that does not look at the status
loanIsDefaulted_overdue(loan) == now > loan.dueDate

\* the stub: return false
loanIsDefaulted(loan) == FALSE

\* loan.status.Active === "ACTIVE"
IsActive(loan) == loan.status = "Active"

----------------------------------------------------------------------------
(* Initial state: the three stable maps are empty *)

Init ==
    /\ loans = <<>>
    /\ loanRequests = <<>>
    /\ userProfiles = <<>>
    /\ now = 0
    /\ uuids = {1}
    /\ issued = <<>>
    /\ last = Call("init", None, 0, 0, NoTerms, None, "Ok", <<>>)

\* the loan ids a call may name: those stored and those uuidv4() may yet return
KnownIds == DOMAIN loans \cup uuids

\* the ids createLoanRequest has returned to caller
IssuedTo(caller) == {i \in DOMAIN issued : issued[i].caller = caller}

----------------------------------------------------------------------------
(* The clock *)

AdvanceTime ==
    /\ (now \div SecondsPerYear) < MaxYears
    /\ now' = now + SecondsPerYear
    /\ last' = Call("tick", None, 0, 0, NoTerms, None, "Ok", <<>>)
    /\ UNCHANGED <<loans, loanRequests, userProfiles, uuids, issued>>

----------------------------------------------------------------------------
(* User ledger *)

registerUser(caller, name) ==
    /\ userProfiles' = (caller :> [principal |-> caller, name |-> name, balance |-> 0])
                           @@ userProfiles
    /\ last' = Call("registerUser", caller, 0, 0, NoTerms, None, "Ok", <<>>)
    /\ UNCHANGED <<loans, loanRequests, now, uuids, issued>>

saveFunds(caller, amount) ==
    IF caller \notin DOMAIN userProfiles
    THEN /\ last' = Call("saveFunds", caller, 0, 0, NoTerms, None, "NotFound", <<>>)
         /\ UNCHANGED <<loans, loanRequests, userProfiles, now, uuids, issued>>
    ELSE /\ userProfiles[caller].balance + amount <= MaxBalance
         /\ userProfiles' = [userProfiles EXCEPT ![caller].balance = @ + amount]
         /\ last' = Call("saveFunds", caller, 0, 0, NoTerms, None, "Ok", <<>>)
         /\ UNCHANGED <<loans, loanRequests, now, uuids, issued>>

----------------------------------------------------------------------------
(* Loan requests *)

\* loanRequestsStorage.insert(ic.caller(), request): the map holds one value
\* per key, so the insert replaces what the caller had stored.  The id that
\* is returned is a fresh uuid and is stored nowhere.
createLoanRequest(caller, request) ==
    /\ Len(issued) < MaxRequests
    /\ LET requestId == Len(issued) + 1
       IN  /\ loanRequests' = (caller :> request) @@ loanRequests
           /\ issued' = Append(issued, [caller |-> caller, request |-> request])
           /\ last' = Call("createLoanRequest", caller, 0, requestId, request,
                           None, "Ok", <<>>)
    /\ UNCHANGED <<loans, userProfiles, now, uuids>>

\* the loan built from the stored request of the caller
NewLoan(id, caller, request) ==
    [id |-> id,
     amount |-> request.amount,
     interestRate |-> request.interestRate,
     duration |-> request.duration,
     borrower |-> caller,
     lender |-> None,
     status |-> "Active",
     creationDate |-> now,
     dueDate |-> now + request.duration]

\* the accepted request is taken out of the request store
acceptLoanRequest_consuming(caller, loanRequestId) ==
    IF caller \notin DOMAIN loanRequests
    THEN /\ last' = Call("acceptLoanRequest", caller, 0, loanRequestId, NoTerms,
                         None, "NotFound", <<>>)
         /\ UNCHANGED <<loans, loanRequests, userProfiles, now, uuids, issued>>
    ELSE \E id \in uuids :
            /\ loans' = (id :> NewLoan(id, caller, loanRequests[caller])) @@ loans
            /\ loanRequests' = [c \in DOMAIN loanRequests \ {caller} |->
                                   loanRequests[c]]
            /\ uuids' = uuids \ {id}
            /\ last' = Call("acceptLoanRequest", caller, id, loanRequestId,
                            loanRequests[caller], None, "Ok", <<id>>)
            /\ UNCHANGED <<userProfiles, now, issued>>

\* loanRequestId is read only by the error message
acceptLoanRequest(caller, loanRequestId) ==
    IF caller \notin DOMAIN loanRequests
    THEN /\ last' = Call("acceptLoanRequest", caller, 0, loanRequestId, NoTerms,
                         None, "NotFound", <<>>)
         /\ UNCHANGED <<loans, loanRequests, userProfiles, now, uuids, issued>>
    ELSE \E id \in uuids :
            /\ loans' = (id :> NewLoan(id, caller, loanRequests[caller])) @@ loans
            /\ uuids' = uuids \ {id}
            /\ last' = Call("acceptLoanRequest", caller, id, loanRequestId,
                            loanRequests[caller], None, "Ok", <<id>>)
            /\ UNCHANGED <<loanRequests, userProfiles, now, issued>>

----------------------------------------------------------------------------
(* Loans *)

\* the body is a comment in the source; only the fully-repaid test acts
makeRepayment(loanId, repaymentAmount) ==
    LET args == [NoTerms EXCEPT !.amount = repaymentAmount] IN
    IF loanId \notin DOMAIN loans
    THEN /\ last' = Call("makeRepayment", None, loanId, 0, args, None, "NotFound", <<>>)
         /\ UNCHANGED <<loans, loanRequests, userProfiles, now, uuids, issued>>
    ELSE /\ loans' = IF loanIsFullyRepaid(loans[loanId])
                     THEN [loans EXCEPT ![loanId].status = "Completed"]
                     ELSE loans
         /\ last' = Call("makeRepayment", None, loanId, 0, args, None, "Ok", <<>>)
         /\ UNCHANGED <<loanRequests, userProfiles, now, uuids, issued>>

\* loansStorage.values().filter(loan => loanIsDefaulted(loan))
defaultedLoans == {id \in DOMAIN loans : loanIsDefaulted(loans[id])}

checkForDefault ==
    LET Default(loan) == [loan EXCEPT !.status = "Defaulted"]
    IN  /\ loans' = [id \in DOMAIN loans |->
                       IF id \in defaultedLoans THEN Default(loans[id]) ELSE loans[id]]
        /\ last' = Call("checkForDefault", None, 0, 0, NoTerms, None, "Ok",
                        SortedIds(defaultedLoans))
        /\ UNCHANGED <<loanRequests, userProfiles, now, uuids, issued>>

\* the only test of modifyLoanTerms: the caller is not looked at
ModificationAllowed(caller, loan) == IsActive(loan)

modifyLoanTerms(caller, loanId, newTerms) ==
    IF loanId \notin DOMAIN loans
    THEN /\ last' = Call("modifyLoanTerms", caller, loanId, 0, newTerms, None,
                         "NotFound", <<>>)
         /\ UNCHANGED <<loans, loanRequests, userProfiles, now, uuids, issued>>
    ELSE IF ~ModificationAllowed(caller, loans[loanId])
    THEN /\ last' = Call("modifyLoanTerms", caller, loanId, 0, newTerms, None,
                         "InvalidPayload", <<>>)
         /\ UNCHANGED <<loans, loanRequests, userProfiles, now, uuids, issued>>
    ELSE /\ loans' = [loans EXCEPT ![loanId].amount = newTerms.amount,
                                   ![loanId].interestRate = newTerms.interestRate,
                                   ![loanId].duration = newTerms.duration,
                                   ![loanId].dueDate = calculateDueDate(newTerms.duration)]
         /\ last' = Call("modifyLoanTerms", caller, loanId, 0, newTerms, None,
                         "Ok", <<loanId>>)
         /\ UNCHANGED <<loanRequests, userProfiles, now, uuids, issued>>

\* the interest is added a second time
Accrue_twice(loan) ==
    [loan EXCEPT !.amount = @ + 2 * calculateAccumulatedInterest(loan)]

\* loan.amount += accumulatedInterest
Accrue(loan) == [loan EXCEPT !.amount = @ + calculateAccumulatedInterest(loan)]

\* every active loan accrues, in the key order of the store
accumulateInterest ==
    LET activeLoans == {id \in DOMAIN loans : IsActive(loans[id])}
    IN  /\ \A id \in activeLoans : Accrue(loans[id]).amount <= MaxAmount
        /\ loans' = [id \in DOMAIN loans |->
                       IF id \in activeLoans THEN Accrue(loans[id]) ELSE loans[id]]
        /\ last' = Call("accumulateInterest", None, 0, 0, NoTerms, None, "Ok",
                        SortedIds(activeLoans))
        /\ UNCHANGED <<loanRequests, userProfiles, now, uuids, issued>>

\* loan.amount -= repaymentAmount on every loan whose due date is reached.
\* loan.amount / loan.duration throws on a zero duration, and a negative
\* amount does not encode as nat64: either traps the call.
automateLoanRepayment ==
    LET loansForRepayment == {id \in DOMAIN loans : shouldAutomateRepayment(loans[id])}
        Repay(loan) == [loan EXCEPT !.amount = @ - calculateRepaymentAmount(loan)]
        Throws(loan) == \/ loan.duration = 0
                        \/ Repay(loan).amount < 0
    IN  IF \E id \in loansForRepayment : Throws(loans[id])
        THEN /\ last' = Call("automateLoanRepayment", None, 0, 0, NoTerms, None,
                             "Trap", <<>>)
             /\ UNCHANGED <<loans, loanRequests, userProfiles, now, uuids, issued>>
        ELSE /\ loans' = [id \in DOMAIN loans |->
                            IF id \in loansForRepayment THEN Repay(loans[id])
                            ELSE loans[id]]
             /\ last' = Call("automateLoanRepayment", None, 0, 0, NoTerms, None, "Ok",
                             SortedIds(loansForRepayment))
             /\ UNCHANGED <<loanRequests, userProfiles, now, uuids, issued>>

\* the comparison off by one: an equal duration is let through
ExtensionRefused_strict(loan, newDuration) == newDuration < loan.duration

\* newDuration <= loan.duration is refused
ExtensionRefused(loan, newDuration) == newDuration <= loan.duration

requestLoanExtension(caller, loanId, newDuration) ==
    LET args == [NoTerms EXCEPT !.duration = newDuration] IN
    IF loanId \notin DOMAIN loans
    THEN /\ last' = Call("requestLoanExtension", caller, loanId, 0, args, None,
                         "NotFound", <<>>)
         /\ UNCHANGED <<loans, loanRequests, userProfiles, now, uuids, issued>>
    ELSE IF ~IsActive(loans[loanId]) \/ ExtensionRefused(loans[loanId], newDuration)
    THEN /\ last' = Call("requestLoanExtension", caller, loanId, 0, args, None,
                         "InvalidPayload", <<>>)
         /\ UNCHANGED <<loans, loanRequests, userProfiles, now, uuids, issued>>
    ELSE /\ loans' = [loans EXCEPT ![loanId].duration = newDuration,
                                   ![loanId].dueDate = calculateDueDate(newDuration)]
         /\ last' = Call("requestLoanExtension", caller, loanId, 0, args, None,
                         "Ok", <<loanId>>)
         /\ UNCHANGED <<loanRequests, userProfiles, now, uuids, issued>>

\* a lender test that never fires: a second assignLender overwrites
LenderPresent_overwrite(loan) == FALSE

\* loan.lender !== None
LenderPresent(loan) == loan.lender # None

\* the borrower is written where the given principal belongs
WithLender_borrower(loan, lenderPrincipal) == [loan EXCEPT !.lender = loan.borrower]

\* loan.lender = Some(lenderPrincipal)
WithLender(loan, lenderPrincipal) == [loan EXCEPT !.lender = lenderPrincipal]

\* the lender is written and stored before the loan is validated
assignLender_writeFirst(loanId, lenderPrincipal) ==
    IF loanId \notin DOMAIN loans
    THEN /\ last' = Call("assignLender", None, loanId, 0, NoTerms, lenderPrincipal,
                         "NotFound", <<>>)
         /\ UNCHANGED <<loans, loanRequests, userProfiles, now, uuids, issued>>
    ELSE /\ loans' = [loans EXCEPT ![loanId] = WithLender(@, lenderPrincipal)]
         /\ last' = Call("assignLender", None, loanId, 0, NoTerms, lenderPrincipal,
                         IF ~IsActive(loans[loanId]) \/ LenderPresent(loans[loanId])
                         THEN "InvalidPayload" ELSE "Ok",
                         IF ~IsActive(loans[loanId]) \/ LenderPresent(loans[loanId])
                         THEN <<>> ELSE <<loanId>>)
         /\ UNCHANGED <<loanRequests, userProfiles, now, uuids, issued>>

assignLender(loanId, lenderPrincipal) ==
    IF loanId \notin DOMAIN loans
    THEN /\ last' = Call("assignLender", None, loanId, 0, NoTerms, lenderPrincipal,
                         "NotFound", <<>>)
         /\ UNCHANGED <<loans, loanRequests, userProfiles, now, uuids, issued>>
    ELSE IF ~IsActive(loans[loanId]) \/ LenderPresent(loans[loanId])
    THEN /\ last' = Call("assignLender", None, loanId, 0, NoTerms, lenderPrincipal,
                         "InvalidPayload", <<>>)
         /\ UNCHANGED <<loans, loanRequests, userProfiles, now, uuids, issued>>
    ELSE /\ loans' = [loans EXCEPT ![loanId] = WithLender(@, lenderPrincipal)]
         /\ last' = Call("assignLender", None, loanId, 0, NoTerms, lenderPrincipal,
                         "Ok", <<loanId>>)
         /\ UNCHANGED <<loanRequests, userProfiles, now, uuids, issued>>

\* a query: the filter keeps a loan whose borrower is userPrincipal without
\* looking at its lender; on any other loan with a lender it calls toText on
\* the Opt value { Some: principal }, which has no such method, and the
\* TypeError traps the call
getUserLoanHistory(userPrincipal) ==
    LET Throws(loan) == loan.borrower # userPrincipal /\ LenderPresent(loan)
        userLoans == {id \in DOMAIN loans : loans[id].borrower = userPrincipal}
    IN  /\ last' = [userPrincipal |-> userPrincipal]
                    @@ IF \E id \in DOMAIN loans : Throws(loans[id])
                       THEN Call("getUserLoanHistory", None, 0, 0, NoTerms, None,
                                 "Trap", <<>>)
                       ELSE Call("getUserLoanHistory", None, 0, 0, NoTerms, None,
                                 "Ok", SortedIds(userLoans))
        /\ UNCHANGED <<loans, loanRequests, userProfiles, now, uuids, issued>>

\* a query: Ok(loanOpt.Some.status), the stores are read only
getLoanStatus(loanId) ==
    /\ last' = Call("getLoanStatus", None, loanId, 0, NoTerms, None,
                    IF loanId \in DOMAIN loans THEN "Ok" ELSE "NotFound",
                    IF loanId \in DOMAIN loans THEN <<loanId>> ELSE <<>>)
    /\ UNCHANGED <<loans, loanRequests, userProfiles, now, uuids, issued>>

\* the record getLoanSummary returns
LoanSummary(loan) ==
    [id |-> loan.id,
     originalAmount |-> loan.amount,
     currentAmount |-> loan.amount + calculateAccumulatedInterest(loan),
     interestRate |-> loan.interestRate,
     duration |-> loan.duration,
     borrower |-> loan.borrower,
     lender |-> loan.lender,
     status |-> loan.status,
     creationDate |-> loan.creationDate,
     dueDate |-> loan.dueDate,
     accumulatedInterest |-> calculateAccumulatedInterest(loan)]

\* a query: the stores are read only
getLoanSummary(loanId) ==
    /\ last' = IF loanId \notin DOMAIN loans
               THEN Call("getLoanSummary", None, loanId, 0, NoTerms, None,
                         "NotFound", <<>>)
               ELSE [summary |-> LoanSummary(loans[loanId])]
                    @@ Call("getLoanSummary", None, loanId, 0, NoTerms, None,
                            "Ok", <<loanId>>)
    /\ UNCHANGED <<loans, loanRequests, userProfiles, now, uuids, issued>>

----------------------------------------------------------------------------

Next ==
    \/ AdvanceTime
    \/ \E c \in Principals, r \in LoanRequest : createLoanRequest(c, r)
    \/ \E c \in Principals, i \in RequestIds : acceptLoanRequest(c, i)
    \/ \E l \in KnownIds, a \in Amounts : makeRepayment(l, a)
    \/ checkForDefault
    \/ \E c \in Principals, l \in KnownIds, t \in LoanRequest : modifyLoanTerms(c, l, t)
    \/ accumulateInterest
    \/ automateLoanRepayment
    \/ \E c \in Principals, l \in KnownIds, d \in Durations : requestLoanExtension(c, l, d)
    \/ \E l \in KnownIds, p \in Principals : assignLender(l, p)

\* the loan ledger and the clock
Spec == Init /\ [][Next]_vars

\* a loan store that can take two loans
InitBatch ==
    /\ loans = <<>>
    /\ loanRequests = <<>>
    /\ userProfiles = <<>>
    /\ now = 0
    /\ uuids = {1, 2}
    /\ issued = <<>>
    /\ last = Call("init", None, 0, 0, NoTerms, None, "Ok", <<>>)

BatchNext ==
    \/ AdvanceTime
    \/ \E n \in Names : registerUser("alice", n)
    \/ \E c \in Principals, r \in LoanRequest : createLoanRequest(c, r)
    \/ \E c \in Principals, i \in RequestIds : acceptLoanRequest(c, i)
    \/ checkForDefault
    \/ accumulateInterest
    \/ automateLoanRepayment

\* the batch methods over two loans
SpecBatch == InitBatch /\ [][BatchNext]_vars

\* the loans and the times the interest is computed for
InterestAmounts == {0, 1, 99, 150, 1000}
InterestRates == {0, 1, 10, 20}
InterestDates == {0, SecondsPerYear}
ElapsedTimes == {0, 1, SecondsPerYear \div 4, SecondsPerYear,
                 SecondsPerYear + SecondsPerYear \div 4, 2 * SecondsPerYear}

\* one loan, accepted at creationDate from a request of alice, read at now
InitInterest ==
    \E a \in InterestAmounts, r \in InterestRates, c \in InterestDates,
       e \in ElapsedTimes :
        LET request == [amount |-> a, interestRate |-> r,
                        duration |-> SecondsPerYear]
        IN  /\ loans = (1 :> [id |-> 1, amount |-> a, interestRate |-> r,
                              duration |-> SecondsPerYear, borrower |-> "alice",
                              lender |-> None, status |-> "Active",
                              creationDate |-> c,
                              dueDate |-> c + SecondsPerYear])
            /\ loanRequests = ("alice" :> request)
            /\ userProfiles = <<>>
            /\ now = c + e
            /\ uuids = {}
            /\ issued = <<[caller |-> "alice", request |-> request]>>
            /\ last = Call("init", None, 0, 0, NoTerms, None, "Ok", <<>>)

InterestNext == \E l \in KnownIds : getLoanSummary(l)

\* the interest function applied to a grid of loans and times
SpecInterest == InitInterest /\ [][InterestNext]_vars

CallsNext ==
    \/ \E n \in Names : registerUser("alice", n)
    \/ \E c \in Principals, a \in Deposits : saveFunds(c, a)
    \/ \E r \in LoanRequest : createLoanRequest("alice", r)
    \/ \E c \in Principals, i \in RequestIds : acceptLoanRequest(c, i)
    \/ \E l \in KnownIds, a \in Amounts : makeRepayment(l, a)
    \/ \E l \in KnownIds : getLoanStatus(l)
    \/ \E c \in Principals, l \in KnownIds, t \in LoanRequest : modifyLoanTerms(c, l, t)
    \/ \E c \in Principals, l \in KnownIds, d \in Durations : requestLoanExtension(c, l, d)
    \/ \E l \in KnownIds, p \in Principals : assignLender(l, p)
    \/ \E l \in KnownIds : getLoanSummary(l)
    \/ \E p \in Principals : getUserLoanHistory(p)

\* every call that can answer with an error, on all three stores, the clock
\* standing still
SpecCalls == Init /\ [][CallsNext]_vars

UserNext ==
    \/ \E c \in Principals, n \in Names : registerUser(c, n)
    \/ \E c \in Principals, a \in Deposits : saveFunds(c, a)

\* the user ledger
SpecUsers == Init /\ [][UserNext]_vars

----------------------------------------------------------------------------
(* Properties *)

\* C1: once a loan is Completed or Defaulted, no operation changes it.
\* No loan ever leaves Active (C1_EveryLoanIsActive is an invariant of
\* Spec), so this holds of Spec with no loan it speaks about.
C1_TerminalLoansFrozen ==
    [][ \A id \in DOMAIN loans :
           loans[id].status \in {"Completed", "Defaulted"}
           => (id \in DOMAIN loans' /\ loans'[id] = loans[id]) ]_vars

C1_EveryLoanIsActive ==
    \A id \in DOMAIN loans : loans[id].status = "Active"

\* the requests caller has created, oldest first
CreatedBy(caller) ==
    LET ByCaller(e) == e.caller = caller
        made == SelectSeq(issued, ByCaller)
    IN  [i \in 1..Len(made) |-> made[i].request]

\* what loanRequestsStorage holds for caller, read as a queue
StoredRequests(caller) ==
    IF caller \in DOMAIN loanRequests THEN <<loanRequests[caller]>> ELSE <<>>

\* C2: acceptLoanRequest with a request id that no createLoanRequest of the
\* caller returned fails with NotFound and leaves the loan store unchanged.
C2_AcceptUnissuedIdFails ==
    [][ (/\ last'.op = "acceptLoanRequest"
         /\ last'.requestId \notin IssuedTo(last'.caller))
        => (last'.res = "NotFound" /\ loans' = loans) ]_vars

\* C3: a successful acceptLoanRequest of a request the caller created stores
\* a loan with the amount, interestRate and duration of that request, the
\* caller as borrower, no lender, status Active, creationDate = now and
\* dueDate = now + duration.
C3_AcceptedLoanMatchesRequest ==
    [][ (/\ last'.op = "acceptLoanRequest"
         /\ last'.res = "Ok"
         /\ last'.requestId \in IssuedTo(last'.caller))
        => LET accepted == issued[last'.requestId].request
               id == last'.loanId
           IN  /\ id \in DOMAIN loans' \ DOMAIN loans
               /\ loans'[id] = [id |-> id,
                                amount |-> accepted.amount,
                                interestRate |-> accepted.interestRate,
                                duration |-> accepted.duration,
                                borrower |-> last'.caller,
                                lender |-> None,
                                status |-> "Active",
                                creationDate |-> now,
                                dueDate |-> now + accepted.duration] ]_vars

\* the active loans with something outstanding whose due date has passed
Overdue == {id \in DOMAIN loans : /\ IsActive(loans[id])
                                  /\ loans[id].amount > 0
                                  /\ now > loans[id].dueDate}

\* C4: checkForDefault turns exactly the active, unpaid loans whose due date
\* has passed into Defaulted loans and returns exactly their ids.
C4_CheckForDefaultTransitionsOverdue ==
    [][ last'.op = "checkForDefault"
        => /\ last'.ids = SortedIds(Overdue)
           /\ loans' = [id \in DOMAIN loans |->
                          IF id \in Overdue
                          THEN [loans[id] EXCEPT !.status = "Defaulted"]
                          ELSE loans[id]] ]_vars

\* C5: a lender that is present is never reassigned or cleared by any
\* operation, and assignLender on a loan that has a lender fails with
\* InvalidPayload and leaves the loan store unchanged.
C5_LenderNeverOverwritten ==
    [][ /\ \A id \in DOMAIN loans :
              loans[id].lender # None
              => (id \in DOMAIN loans' /\ loans'[id].lender = loans[id].lender)
        /\ (/\ last'.op = "assignLender"
            /\ last'.loanId \in DOMAIN loans
            /\ loans[last'.loanId].lender # None)
           => (last'.res = "InvalidPayload" /\ loans' = loans) ]_vars

\* an assignLender call has just been refused on an active loan with a lender
C5_Witness ==
    /\ last.op = "assignLender"
    /\ last.res = "InvalidPayload"
    /\ last.loanId \in DOMAIN loans
    /\ loans[last.loanId].status = "Active"
    /\ loans[last.loanId].lender \in Principals

\* C6: assignLender on an existing active loan without a lender returns Ok
\* and changes the stored loan in its lender alone, which becomes the given
\* identity.
C6_AssignLenderSucceeds ==
    [][ (/\ last'.op = "assignLender"
         /\ last'.loanId \in DOMAIN loans
         /\ loans[last'.loanId].status = "Active"
         /\ loans[last'.loanId].lender = None)
        => /\ last'.res = "Ok"
           /\ loans' = [loans EXCEPT ![last'.loanId].lender = last'.lender] ]_vars

\* an assignLender call has just given a loan of another borrower its lender
C6_Witness ==
    /\ last.op = "assignLender"
    /\ last.res = "Ok"
    /\ last.loanId \in DOMAIN loans
    /\ loans[last.loanId].lender = last.lender
    /\ loans[last.loanId].borrower # last.lender

\* C7: requestLoanExtension with newDuration <= the loan's duration fails
\* with InvalidPayload and leaves the loan unchanged; a successful call sets
\* duration = newDuration and dueDate = now + newDuration and nothing else.
C7_ExtensionNeedsLongerDuration ==
    [][ (/\ last'.op = "requestLoanExtension"
         /\ last'.loanId \in DOMAIN loans)
        => LET id == last'.loanId
               newDuration == last'.terms.duration
           IN  /\ newDuration <= loans[id].duration
                  => (last'.res = "InvalidPayload" /\ loans' = loans)
               /\ last'.res = "Ok"
                  => loans' = [loans EXCEPT ![id].duration = newDuration,
                                            ![id].dueDate = now + newDuration] ]_vars

\* an extension to the loan's own duration has just been refused
C7_Witness ==
    /\ last.op = "requestLoanExtension"
    /\ last.res = "InvalidPayload"
    /\ last.loanId \in DOMAIN loans
    /\ loans[last.loanId].status = "Active"
    /\ last.terms.duration = loans[last.loanId].duration

\* C8: modifyLoanTerms by a caller that is neither the borrower nor the
\* lender of the loan, and requestLoanExtension by a caller that is not its
\* borrower, fail with InvalidPayload and leave the loan store unchanged.
C8_UnauthorizedCallersRejected ==
    [][ /\ (/\ last'.op = "modifyLoanTerms"
            /\ last'.loanId \in DOMAIN loans
            /\ last'.caller # loans[last'.loanId].borrower
            /\ last'.caller # loans[last'.loanId].lender)
           => (last'.res = "InvalidPayload" /\ loans' = loans)
        /\ (/\ last'.op = "requestLoanExtension"
            /\ last'.loanId \in DOMAIN loans
            /\ last'.caller # loans[last'.loanId].borrower)
           => (last'.res = "InvalidPayload" /\ loans' = loans) ]_vars

\* C9: a makeRepayment that covers all that is outstanding on an active loan
\* leaves the loan Completed.
C9_FullRepaymentCompletes ==
    [][ (/\ last'.op = "makeRepayment"
         /\ last'.loanId \in DOMAIN loans
         /\ loans[last'.loanId].status = "Active"
         /\ loans[last'.loanId].amount > 0
         /\ last'.terms.amount >= loans[last'.loanId].amount)
        => loans'[last'.loanId].status = "Completed" ]_vars

\* C10: the request store holds, for every identity, all the requests the
\* identity has created, in the order of their creation.
C10_RequestsAppended ==
    \A p \in Principals : StoredRequests(p) = CreatedBy(p)


\* C11: registerUser by an identity that already has a profile fails with
\* InvalidPayload and leaves the profile, its balance included, unchanged.
C11_ReRegistrationRefused ==
    [][ (/\ last'.op = "registerUser"
         /\ last'.caller \in DOMAIN userProfiles)
        => (last'.res = "InvalidPayload" /\ userProfiles' = userProfiles) ]_vars


ExpectedInterest(loan, time) ==
    LET perYear == (loan.amount * loan.interestRate) \div 100
        elapsed == time - loan.creationDate
    IN  perYear * (elapsed \div (365 * 24 * 60 * 60))
        + (perYear * (elapsed % (365 * 24 * 60 * 60))) \div (365 * 24 * 60 * 60)

\* C13: the accumulated interest of a loan at now >= creationDate is
\* ((amount * interestRate) div 100) * (now - creationDate) div (365*24*60*60);
\* amount 1000, interestRate 10, creationDate 0, now 31536000 give 100.
C13_InterestFormula ==
    (last.op = "getLoanSummary" /\ last.res = "Ok")
    => LET loan == loans[last.loanId]
       IN  /\ last.summary.accumulatedInterest = ExpectedInterest(loan, now)
           /\ (/\ loan.amount = 1000
               /\ loan.interestRate = 10
               /\ loan.creationDate = 0
               /\ now = 31536000)
              => last.summary.accumulatedInterest = 100

\* the interest of the loan of 1000 at 10 has just been computed a year and
\* a quarter after its creation
C13_Witness ==
    /\ last.op = "getLoanSummary"
    /\ last.res = "Ok"
    /\ loans[last.loanId].amount = 1000
    /\ loans[last.loanId].interestRate = 10
    /\ now - loans[last.loanId].creationDate = 39420000
    /\ last.summary.accumulatedInterest = 125


\* C14: one run of accumulateInterest adds accumulatedInterest(loan, now) to
\* the amount of every Active loan exactly once, returns exactly the ids of
\* those loans without duplicates, and leaves every other loan as it was.
C14_AccrualBatch ==
    [][ last'.op = "accumulateInterest"
        => /\ last'.ids = SortedIds({id \in DOMAIN loans : loans[id].status = "Active"})
           /\ \A i, j \in DOMAIN last'.ids :
                  i # j => last'.ids[i] # last'.ids[j]
           /\ DOMAIN loans' = DOMAIN loans
           /\ \A id \in DOMAIN loans :
                  loans'[id] =
                      IF loans[id].status = "Active"
                      THEN [loans[id] EXCEPT
                              !.amount = @ + ExpectedInterest(loans[id], now)]
                      ELSE loans[id] ]_vars

\* a run over two loans has just returned both ids and one of them, taken a
\* year before at 100, stands at 120
C14_Witness ==
    /\ last.op = "accumulateInterest"
    /\ Len(last.ids) = 2
    /\ \E id \in DOMAIN loans :
          /\ loans[id].amount = 120
          /\ now - loans[id].creationDate = SecondsPerYear


\* C15: whenever a call answers NotFound or InvalidPayload, the loan store,
\* the loan request store and the user profile store are as they were before
\* the call.
C15_NoPartialMutation ==
    [][ last'.res \in {"NotFound", "InvalidPayload"}
        => /\ loans' = loans
           /\ loanRequests' = loanRequests
           /\ userProfiles' = userProfiles ]_vars

\* assignLender has just been refused on a loan that has a lender, with a
\* request and a profile in the other stores
C15_Witness ==
    /\ last.op = "assignLender"
    /\ last.res = "InvalidPayload"
    /\ last.loanId \in DOMAIN loans
    /\ loans[last.loanId].lender \in Principals
    /\ loans[last.loanId].lender # last.lender
    /\ DOMAIN loanRequests # {}
    /\ DOMAIN userProfiles # {}


\* C16: in every reachable state every stored loan has
\* dueDate >= creationDate, also after modifyLoanTerms and
\* requestLoanExtension have recomputed the due date.
C16_DueDateNotBeforeCreation ==
    \A id \in DOMAIN loans : loans[id].dueDate >= loans[id].creationDate

\* the due date of a loan has just been recomputed by an extension granted
\* after the time the loan was created
C16_Witness ==
    /\ last.op = "requestLoanExtension"
    /\ last.res = "Ok"
    /\ loans[last.loanId].creationDate < now
    /\ loans[last.loanId].dueDate = now + loans[last.loanId].duration


\* C17: createLoanRequest with amount = 0 or duration = 0 fails with
\* InvalidPayload and stores nothing, and every stored loan has duration > 0.
C17_NoZeroDurationLoan ==
    /\ (/\ last.op = "createLoanRequest"
        /\ (last.terms.amount = 0 \/ last.terms.duration = 0))
       => /\ last.res = "InvalidPayload"
          /\ last.caller \notin DOMAIN loanRequests
    /\ \A id \in DOMAIN loans : loans[id].duration > 0


\* C18: getUserLoanHistory(identity) returns exactly the stored loans whose
\* borrower or assigned lender is identity.
C18_HistoryOfBorrowerOrLender ==
    last.op = "getUserLoanHistory"
    => /\ last.res = "Ok"
       /\ last.ids = SortedIds({id \in DOMAIN loans :
                                   \/ loans[id].borrower = last.userPrincipal
                                   \/ loans[id].lender = last.userPrincipal})


\* C19: automateLoanRepayment never subtracts from a loan more than its
\* current amount, and the stored amounts are never negative.
C19_RepaymentWithinAmount ==
    [][ last'.op = "automateLoanRepayment"
        => \A id \in DOMAIN loans :
              (shouldAutomateRepayment(loans[id]) /\ loans[id].duration > 0)
              => /\ calculateRepaymentAmount(loans[id]) <= loans[id].amount
                 /\ loans'[id].amount >= 0 ]_vars


\* C20: a successful acceptLoanRequest adds exactly one loan, under an id
\* that was not in the loan store, and leaves every existing loan, the
\* request store and the user profiles as they were; no step removes a loan.
C20_AcceptAddsOneLoan ==
    [][ /\ (last'.op = "acceptLoanRequest" /\ last'.res = "Ok")
           => /\ last'.loanId \notin DOMAIN loans
              /\ DOMAIN loans' = DOMAIN loans \cup {last'.loanId}
              /\ \A id \in DOMAIN loans : loans'[id] = loans[id]
              /\ loanRequests' = loanRequests
              /\ last'.caller \in DOMAIN loanRequests'
              /\ userProfiles' = userProfiles
        /\ DOMAIN loans \subseteq DOMAIN loans' ]_vars

\* a second loan has just been accepted next to a stored one, with a request
\* and a profile in the other stores
C20_Witness ==
    /\ last.op = "acceptLoanRequest"
    /\ last.res = "Ok"
    /\ Cardinality(DOMAIN loans) = 2
    /\ last.caller \in DOMAIN loanRequests
    /\ DOMAIN userProfiles # {}

====
